---- MODULE Spec2Model ----
(***************************************************************************)
(* Model of revm-provider: the RevmProvider facade (src/src/provider.rs),  *)
(* its inner EthVmInner wrapper around revm's EVM<CacheDB<EmptyDB>>, and   *)
(* the Contract binding (src/src/contract.rs).                             *)
(*                                                                         *)
(* The store is CacheDB's account map.  An address without a record and an *)
(* address whose record is the default one are the same thing to every     *)
(* operation of the provider, so the store is a total function.            *)
(*                                                                         *)
(* Widths are scaled: U256Max stands for U256::MAX, one gas unit stands    *)
(* for the intrinsic cost of a transaction.                                *)
(***************************************************************************)
EXTENDS Integers, FiniteSets, Sequences, TLC

VARIABLES db, guard, pc, cur, touched, poisoned, lastget

vars == <<db, guard, pc, cur, touched, poisoned, lastget>>

(***************************************************************************)
(* Bounds                                                                  *)
(***************************************************************************)
U256Max == 2        \* the largest balance / value (stands for 2^256 - 1)
MaxNonce == 1       \* a caller whose nonce reached it sends no more
MaxCount == 1       \* the counter contract is not incremented beyond it

Threads == {"t1", "t2"}            \* owners of a clone of the provider handle

ZeroAddr == "zero"                 \* Address::ZERO, the default block.coinbase
Addr == {"zero", "alice", "bob"}
Callers == {"alice", "bob"}        \* tx.caller of the transactions issued
Targets == {"bob"}                 \* TransactTo::Call target of the transactions issued
Values == {0, 1, U256Max}

None == <<>>
Some(x) == <<x>>
IsSome(o) == Len(o) = 1
Unwrap(o) == o[1]

(***************************************************************************)
(* Accounts (revm AccountInfo + the storage of DbAccount)                  *)
(***************************************************************************)
Codes == {"none", "counter"}

AccountInfoDefault == [balance |-> 0, nonce |-> 0, code |-> "none"]

DbAccountDefault == [balance |-> 0, nonce |-> 0, code |-> "none", storage |-> 0]

\* EthVmInner::new : an empty CacheDB over EmptyDB
NewDb == [a \in Addr |-> DbAccountDefault]

Min(a, b) == IF a < b THEN a ELSE b

SumBalances(d) == d["zero"].balance + d["alice"].balance + d["bob"].balance

(***************************************************************************)
(* Transactions (revm TxEnv)                                               *)
(***************************************************************************)
\* call data: empty, or the selector of a function
CallData == {"", "sel_inc", "sel_get", "sel_fail", "sel_boom"}
\* init code: deploys the counter, reverts, or runs into an invalid opcode
InitCode == {"init_counter", "init_revert", "init_invalid"}

GasLimitMax == 2    \* stands for u64::MAX, TxEnv::default().gas_limit
IntrinsicGas == 1   \* what every transaction costs before it runs any code
CodeGas == 1        \* what running contract code (or init code) costs

\* TxEnv::default()
TxEnvDefault ==
  [caller |-> ZeroAddr, transact_to |-> ZeroAddr, data |-> "", value |-> 0,
   gas_limit |-> GasLimitMax, gas_price |-> 0]

IsCreate(tx) == tx.transact_to = "Create"

\* the transactions handed to deploy, send and call
TxEnvs ==
  { tx \in [caller : Callers, transact_to : Targets \cup {"Create"},
            data : CallData \cup InitCode, value : {0, 1},
            gas_limit : {IntrinsicGas, GasLimitMax}, gas_price : {0, 1}] :
      /\ IsCreate(tx) <=> tx.data \in InitCode }

(***************************************************************************)
(* The engine: revm's EVM::transact over the store (the call at            *)
(* provider.rs:112 and :121).  Contract code is one representative         *)
(* program, a counter with a payable inc(), a view get(), a fail() that    *)
(* writes and then reverts, a boom() that runs into an invalid opcode and  *)
(* no receive/fallback function.                                           *)
(***************************************************************************)
\* create_address(caller, nonce): the address space is folded to one contract address
CreateAddress(caller, nonce) == "bob"

Frame(exit, reason, used, bytes, address, state) ==
  [exit |-> exit, reason |-> reason, used |-> used, bytes |-> bytes,
   address |-> address, state |-> state]

\* JournaledState::transfer : checked_sub from the sender, then checked_add to the receiver
Move(d, from, to, value) ==
  [d EXCEPT ![from].balance = @ - value, ![to].balance = @ + value]

\* the checked_add of the transfer fails
OverflowPayment(d, from, to, value) ==
  to # from /\ d[to].balance + value > U256Max

\* what the counter's code does with the call data; d is the store with the value
\* moved, chk the journal checkpoint a failing frame goes back to
RunCounter(d, tx, chk) ==
  CASE tx.data = "sel_inc" ->
         Frame("ok", "Stop", CodeGas, <<>>, None,
               [d EXCEPT ![tx.transact_to].storage = @ + 1])
    [] tx.data = "sel_get" ->
         IF tx.value > 0
           THEN Frame("revert", "Revert", CodeGas, <<>>, None, chk)
           ELSE Frame("ok", "Return", CodeGas, <<d[tx.transact_to].storage>>, None, d)
    [] tx.data = "sel_fail" -> Frame("revert", "Revert", CodeGas, <<1>>, None, chk)
    [] tx.data = "sel_boom" -> Frame("halt", "InvalidFEOpcode", 0, <<>>, None, chk)
    [] OTHER -> Frame("revert", "Revert", CodeGas, <<>>, None, chk)

\* EVMImpl::call_inner
CallInner(chk, tx, gas) ==
  IF OverflowPayment(chk, tx.caller, tx.transact_to, tx.value)
    THEN Frame("halt", "OverflowPayment", 0, <<>>, None, chk)
  ELSE IF chk[tx.transact_to].code = "none"
    THEN Frame("ok", "Stop", 0, <<>>, None,
               Move(chk, tx.caller, tx.transact_to, tx.value))
  ELSE IF gas < CodeGas
    THEN Frame("halt", "OutOfGas", 0, <<>>, None, chk)
  ELSE RunCounter(Move(chk, tx.caller, tx.transact_to, tx.value), tx, chk)

\* the account a successful create leaves at addr
Created(d, addr) ==
  [d EXCEPT ![addr] = [balance |-> d[addr].balance, nonce |-> 1, code |-> "counter",
                       storage |-> 0]]

\* EVMImpl::create_inner from the checkpoint taken after the caller's nonce was raised
CreateAt(chk, tx, gas, addr) ==
  IF chk[addr].code # "none" \/ chk[addr].nonce # 0
    THEN Frame("halt", "CreateCollision", 0, <<>>, Some(addr), chk)
  ELSE IF OverflowPayment(chk, tx.caller, addr, tx.value)
    THEN Frame("halt", "OverflowPayment", 0, <<>>, Some(addr), chk)
  ELSE IF gas < CodeGas
    THEN Frame("halt", "OutOfGas", 0, <<>>, Some(addr), chk)
  ELSE CASE tx.data = "init_counter" ->
              Frame("ok", "Return", CodeGas, <<>>, Some(addr),
                    Created(Move(chk, tx.caller, addr, tx.value), addr))
         [] tx.data = "init_revert" ->
              Frame("revert", "Revert", CodeGas, <<1>>, Some(addr), chk)
         [] OTHER -> Frame("halt", "InvalidFEOpcode", 0, <<>>, Some(addr), chk)

\* the caller's nonce is raised before the frame runs and stays raised
IncNonce(d, a) == [d EXCEPT ![a].nonce = @ + 1]

\* EVMImpl::create_inner
CreateInner(d, tx, gas) ==
  CreateAt(IncNonce(d, tx.caller), tx, gas, CreateAddress(tx.caller, d[tx.caller].nonce))

EvmErr(why) == [tag |-> "Err", reason |-> why]

\* mutant: the balance of the caller is not held against fee and value
Validate_NoFundCheck(d, tx) ==
  IF tx.gas_limit < IntrinsicGas THEN "CallGasCostMoreThanGasLimit"
  ELSE IF d[tx.caller].code # "none" THEN "RejectCallerWithCode"
  ELSE IF tx.gas_limit * tx.gas_price + tx.value > U256Max
    THEN "OverflowPaymentInTransaction"
  ELSE "ok"

\* Env::validate_tx and validate_tx_against_state: the EVMError cases
Validate(d, tx) ==
  IF tx.gas_limit < IntrinsicGas THEN "CallGasCostMoreThanGasLimit"
  ELSE IF d[tx.caller].code # "none" THEN "RejectCallerWithCode"
  ELSE IF tx.gas_limit * tx.gas_price + tx.value > U256Max
    THEN "OverflowPaymentInTransaction"
  ELSE IF tx.gas_limit * tx.gas_price + tx.value > d[tx.caller].balance
    THEN "LackOfFundForMaxFee"
  ELSE "ok"

\* a halt spends the whole gas limit
GasUsed(tx, exit, used) == IF exit = "halt" THEN tx.gas_limit ELSE IntrinsicGas + used

\* mutant: the unspent gas is not given back
Settle_NoRefund(d, tx, gas_used) ==
  [d EXCEPT ![ZeroAddr].balance = Min(U256Max, @ + gas_used * tx.gas_price)]

\* the unspent gas goes back to the caller, the spent gas to the coinbase (saturating)
Settle(d, tx, gas_used) ==
  [d EXCEPT ![tx.caller].balance =
              Min(U256Max, @ + (tx.gas_limit - gas_used) * tx.gas_price),
            ![ZeroAddr].balance = Min(U256Max, @ + gas_used * tx.gas_price)]

\* the end of EVMImpl::transact : the result and the state of a frame that ran
Finalize(tx, f) ==
  [tag |-> CASE f.exit = "ok" -> "Success"
             [] f.exit = "revert" -> "Revert"
             [] OTHER -> "Halt",
   output |-> IF IsCreate(tx)
                THEN [kind |-> "Create", bytes |-> f.bytes, address |-> f.address]
                ELSE [kind |-> "Call", bytes |-> f.bytes, address |-> None],
   gas_used |-> GasUsed(tx, f.exit, f.used),
   reason |-> f.reason,
   state |-> Settle(f.state, tx, GasUsed(tx, f.exit, f.used))]

\* the gas limit is charged up front
Charge(d, tx) ==
  [d EXCEPT ![tx.caller].balance = @ - tx.gas_limit * tx.gas_price]

\* EVM::transact : Err, or ResultAndState { result, state }
Transact(d, tx) ==
  IF Validate(d, tx) # "ok" THEN EvmErr(Validate(d, tx))
  ELSE IF IsCreate(tx)
    THEN Finalize(tx, CreateInner(Charge(d, tx), tx, tx.gas_limit - IntrinsicGas))
    ELSE Finalize(tx, CallInner(IncNonce(Charge(d, tx), tx.caller), tx,
                                tx.gas_limit - IntrinsicGas))

\* the transactions the bounds let through
TxWithinBounds(d, tx) ==
  /\ d[tx.caller].nonce < MaxNonce
  /\ ~IsCreate(tx) /\ tx.data = "sel_inc" => d[tx.transact_to].storage < MaxCount

\* a simulated transaction raises no counter of the store: any caller within the
\* bounds may issue it
ReadWithinBounds(d, tx) == d[tx.caller].nonce <= MaxNonce

(***************************************************************************)
(* anyhow::Result                                                          *)
(***************************************************************************)
Ok(v) == [ok |-> TRUE, val |-> v, err |-> "", reason |-> "", bytes |-> <<>>]

\* bail!(message, detail): reason is a halt reason or an engine error, bytes a payload
Bail(msg, reason, bytes) ==
  [ok |-> FALSE, val |-> <<>>, err |-> msg, reason |-> reason, bytes |-> bytes]

(***************************************************************************)
(* EthVmInner (provider.rs:96-154): each operator gives the value returned *)
(* and the store left behind.                                              *)
(***************************************************************************)
ExecutionResult(r) ==
  [tag |-> r.tag, output |-> r.output, gas_used |-> r.gas_used, reason |-> r.reason]

\* mutant: the account infos are committed, the storage slots written are not
Commit_DropsStorage(d, r) ==
  IF r.tag = "Err" THEN d
  ELSE [a \in Addr |-> [r.state[a] EXCEPT !.storage = d[a].storage]]

\* mutant: only the state of a Success is committed
Commit_OnlySuccess(d, r) == IF r.tag = "Success" THEN r.state ELSE d

\* transact_commit : the state of every Ok(ResultAndState) is committed
Commit(d, r) == IF r.tag = "Err" THEN d ELSE r.state

\* mutant: the simulation commits like transact_commit
NoCommit_Commits(d, r) == Commit(d, r)

\* transact_ref : nothing is committed
NoCommit(d, r) == d

\* the match of EthVmInner::write and EthVmInner::read on what the engine returned
Wrap(r, msg, reason) ==
  IF r.tag = "Err" THEN Bail(msg, reason, <<>>) ELSE Ok(ExecutionResult(r))

\* EthVmInner::write on what the engine returned: the error carries the engine's
Written(d, r) == [ret |-> Wrap(r, "error with write", r.reason), db |-> Commit(d, r)]

\* EthVmInner::write
write(d, tx) == Written(d, Transact(d, tx))

\* EthVmInner::read on what the engine returned: the error is a fixed message
Simulated(d, r) ==
  [ret |-> Wrap(r, "error with simulate write...", ""), db |-> NoCommit(d, r)]

\* EthVmInner::read
read(d, tx) == Simulated(d, Transact(d, tx))

\* EthVmInner::balance_of
balance_of(d, user) == [ret |-> d[user].balance, db |-> d]

\* CacheDB::insert_account_info : the info is replaced, the storage is kept
InsertAccountInfo(d, user, info) ==
  [d EXCEPT ![user] = [balance |-> info.balance, nonce |-> info.nonce,
                       code |-> info.code, storage |-> @.storage]]

\* mutant: the value is added to the balance the account has
add_account_Additive(d, user, value) ==
  [ret |-> Ok(<<>>),
   db |-> InsertAccountInfo(d, user,
            IF IsSome(value)
              THEN [AccountInfoDefault EXCEPT !.balance = d[user].balance + Unwrap(value)]
              ELSE AccountInfoDefault)]

\* mutant: the value is only put into the info when there is none
add_account_IgnoresValue(d, user, value) ==
  [ret |-> Ok(<<>>), db |-> InsertAccountInfo(d, user, AccountInfoDefault)]

\* EthVmInner::add_account
add_account(d, user, value) ==
  [ret |-> Ok(<<>>),
   db |-> InsertAccountInfo(d, user,
            IF IsSome(value)
              THEN [AccountInfoDefault EXCEPT !.balance = Unwrap(value)]
              ELSE AccountInfoDefault)]

\* mutant: load_account puts a fresh record in place of the one the store has
view_account_Fresh(d, user) ==
  [ret |-> Ok(DbAccountDefault), db |-> InsertAccountInfo(d, user, AccountInfoDefault)]

\* EthVmInner::view_account : load_account never fails over EmptyDB
view_account(d, user) == [ret |-> Ok(d[user]), db |-> d]

(***************************************************************************)
(* Result classification (provider.rs:156-179)                             *)
(***************************************************************************)
\* mutant: a Revert is passed on like a Success
process_execution_result_RevertOk(result) ==
  CASE result.tag \in {"Success", "Revert"} ->
         Ok([output |-> result.output, gas_used |-> result.gas_used, logs |-> <<>>])
    [] OTHER -> Bail("Failed due to halt", result.reason, <<>>)

process_execution_result(result) ==
  CASE result.tag = "Success" ->
         Ok([output |-> result.output, gas_used |-> result.gas_used, logs |-> <<>>])
    [] result.tag = "Revert" ->
         Bail("Failed due to revert", "", result.output.bytes)
    [] OTHER -> Bail("Failed due to halt", result.reason, <<>>)

\* mutant: the output of a create is taken for call output
CallOutput_AnyShape(v) ==
  Ok([bits |-> v.output.bytes, gas_used |-> v.gas_used, logs |-> v.logs])

\* the match on the output in process_result_with_value
CallOutput(v) ==
  IF v.output.kind = "Call"
    THEN Ok([bits |-> v.output.bytes, gas_used |-> v.gas_used, logs |-> v.logs])
    ELSE Bail("expected call output", "", <<>>)

\* .and_then(|r| match r.output ...) on a classified result
AndThenCallOutput(r) == IF r.ok THEN CallOutput(r.val) ELSE r

process_result_with_value(result) ==
  AndThenCallOutput(process_execution_result(result))

\* the match on the output in RevmProvider::deploy
CreateOutput(v) ==
  IF v.output.kind = "Create" /\ IsSome(v.output.address)
    THEN Ok([address |-> Unwrap(v.output.address), gas_used |-> v.gas_used])
    ELSE Bail("expected a create call", "", <<>>)

\* .and_then(|r| process_execution_result(r))? followed by the match
AndThenClassified(r) == IF r.ok THEN process_execution_result(r.val) ELSE r

AndThenCreateOutput(r) == IF r.ok THEN CreateOutput(r.val) ELSE r

DeployResult(r) == AndThenCreateOutput(AndThenClassified(r))

(***************************************************************************)
(* RevmProvider (provider.rs:28-88), inside the write guard                *)
(***************************************************************************)
\* w is what EthVmInner::write or ::read gave: the store is left as it left it
Deployed(w) == [db |-> w.db, ret |-> DeployResult(w.ret)]

AndThenWithValue(r) == IF r.ok THEN process_result_with_value(r.val) ELSE r

WithValue(w) == [db |-> w.db, ret |-> AndThenWithValue(w.ret)]

deploy(d, tx) == Deployed(write(d, tx))

send(d, tx) == WithValue(write(d, tx))

\* mutant: call goes through write like send
call_Writes(d, tx) == WithValue(write(d, tx))

call(d, tx) == WithValue(read(d, tx))

\* mutant: caller and target are taken from the wrong arguments
TransferTx_Swapped(from, to, value) ==
  [TxEnvDefault EXCEPT !.caller = to, !.transact_to = from, !.value = value]

\* mutant: the value is not put into the transaction
TransferTx_NoValue(from, to, value) ==
  [TxEnvDefault EXCEPT !.caller = from, !.transact_to = to]

\* the transaction RevmProvider::transfer builds
TransferTx(from, to, value) ==
  [TxEnvDefault EXCEPT !.caller = from, !.transact_to = to, !.value = value]

transfer(d, from, to, value) == send(d, TransferTx(from, to, value))

(***************************************************************************)
(* Contract (contract.rs:60-188).  The schema is the counter's ABI; encode *)
(* gives the selector of a known function called with the right number of  *)
(* arguments, decode_output accepts the number of words the function       *)
(* declares to return.                                                     *)
(***************************************************************************)
Abi ==
  [inc  |-> [selector |-> "sel_inc",  inputs |-> 0, outputs |-> 0],
   get  |-> [selector |-> "sel_get",  inputs |-> 0, outputs |-> 1],
   fail |-> [selector |-> "sel_fail", inputs |-> 0, outputs |-> 0],
   boom |-> [selector |-> "sel_boom", inputs |-> 0, outputs |-> 0]]

Names == {"inc", "get", "fail", "boom", "nope"}   \* function names asked for
Args == {<<>>, <<1>>}                             \* argument tuples passed
ContractCallers == {"alice"}                      \* callers of Contract::call, ::send

\* Contract::from(abi) : the schema, and no address
ContractFrom == [contract |-> "Abi", address |-> None]

\* the bindings used: unbound, bound to the contract address, bound to another one
Contracts ==
  {ContractFrom, [contract |-> "Abi", address |-> Some("bob")],
   [contract |-> "Abi", address |-> Some("alice")]}

\* mutant: the address is set on the binding itself, which is handed back
at_InPlace(c, address) ==
  [self |-> [c EXCEPT !.address = Some(address)],
   this |-> [c EXCEPT !.address = Some(address)]]

\* Contract::at : self is the binding it was called on as the call leaves it, this
\* the binding returned
at(c, address) == [self |-> c, this |-> [c EXCEPT !.address = Some(address)]]

\* mutant: the arguments are not held against the signature
encode_NoArityCheck(name, args) ==
  IF name \notin DOMAIN Abi THEN Bail("encode: unknown function", name, <<>>)
  ELSE Ok(Abi[name].selector)

\* BaseContract::encode
encode(name, args) ==
  IF name \notin DOMAIN Abi THEN Bail("encode: unknown function", name, <<>>)
  ELSE IF Len(args) # Abi[name].inputs THEN Bail("encode: invalid data", name, <<>>)
  ELSE Ok(Abi[name].selector)

\* BaseContract::decode_output
decode_output(name, bits) ==
  IF Len(bits) # Abi[name].outputs THEN Bail("decode: invalid data", name, <<>>)
  ELSE Ok(bits)

\* mutant: the arguments are encoded before the address is looked at
ContractTx_EncodeFirst(c, name, args, caller, value) ==
  IF ~encode(name, args).ok THEN encode(name, args)
  ELSE IF ~IsSome(c.address) THEN Bail("missing contract address", "", <<>>)
  ELSE Ok([TxEnvDefault EXCEPT !.caller = caller,
                               !.transact_to = Unwrap(c.address),
                               !.data = encode(name, args).val,
                               !.value = IF IsSome(value) THEN Unwrap(value) ELSE 0])

\* Contract::call and Contract::send up to the provider: the transaction, or the failure
ContractTx(c, name, args, caller, value) ==
  IF ~IsSome(c.address) THEN Bail("missing contract address", "", <<>>)
  ELSE IF ~encode(name, args).ok THEN encode(name, args)
  ELSE Ok([TxEnvDefault EXCEPT !.caller = caller,
                               !.transact_to = Unwrap(c.address),
                               !.data = encode(name, args).val,
                               !.value = IF IsSome(value) THEN Unwrap(value) ELSE 0])

\* the .and_then closure of Contract::call and Contract::send, on the decoded output
Typed(o, v) ==
  IF ~o.ok THEN o ELSE Ok([v |-> o.val, gas_used |-> v.gas_used, logs |-> v.logs])

\* .and_then(decode).map_err(|e| anyhow!(prefix e)) on what the provider returned
Decoded(name, r, prefix) ==
  IF ~r.ok THEN [r EXCEPT !.err = prefix \o @]
  ELSE IF ~Typed(decode_output(name, r.val.bits), r.val).ok
    THEN [Typed(decode_output(name, r.val.bits), r.val) EXCEPT !.err = prefix \o @]
  ELSE Typed(decode_output(name, r.val.bits), r.val)

\* p is what the provider gave: the store is left as it left it
DecodedOf(name, p, prefix) == [db |-> p.db, ret |-> Decoded(name, p.ret, prefix)]

\* Contract::call on a transaction that was built
contract_call(d, name, tx) == DecodedOf(name, call(d, tx), "")

\* Contract::send on a transaction that was built
contract_send(d, name, tx) == DecodedOf(name, send(d, tx), "oops ")

\* Contract::deploy
contract_deploy(d, deployer, bincode) ==
  deploy(d, [TxEnvDefault EXCEPT !.caller = deployer, !.transact_to = "Create",
                                 !.data = bincode])

(***************************************************************************)
(* State.  db is the store inside the Arc<RwLock<EthVmInner>>, guard the   *)
(* threads holding its write guard, pc where each thread is, cur the       *)
(* operation that ran last with the store it found and what it returned,   *)
(* touched the addresses that create_account named or a committed          *)
(* transaction changed, poisoned the poison flag of the RwLock, lastget    *)
(* what the callers know of the counter: the target and return bytes of    *)
(* the last call of get() that returned a word, counted up by every good   *)
(* send of inc() to that target, forgotten when anything else changes the  *)
(* store.                                                                  *)
(* The arguments of a call act on nothing before the engine runs, so they  *)
(* are chosen at the step that runs it.                                    *)
(***************************************************************************)
NoTx == [caller |-> "none", transact_to |-> "none", data |-> "none"]

NoOp ==
  [by |-> "none", op |-> "none", req |-> [tx |-> NoTx], pre |-> NewDb,
   outcome |-> "none", ret |-> Ok(<<>>), locked |-> FALSE]

Init ==
  /\ db = NewDb
  /\ guard = {}
  /\ pc = [t \in Threads |-> "idle"]
  /\ cur = NoOp
  /\ touched = {}
  /\ poisoned = FALSE
  /\ lastget = None

\* mutant: the lock is granted like a read lock, whoever holds a guard
LockFree_Shared == TRUE

\* RwLock::write : granted when no guard is held
LockFree == guard = {}

\* mutant: write() hands out the guard of a poisoned lock like any other
WriteOk_IgnoresPoison == TRUE

\* RwLock::write gives Ok(guard) unless the lock is poisoned
WriteOk == ~poisoned

\* self.inner.write().unwrap() on Ok(guard)
Acquire(t) ==
  /\ pc[t] = "idle"
  /\ LockFree
  /\ WriteOk
  /\ guard' = guard \cup {t}
  /\ pc' = [pc EXCEPT ![t] = "locked"]
  /\ cur' = NoOp
  /\ UNCHANGED <<db, touched, poisoned, lastget>>

\* what an operation that panicked leaves of itself: no result
Panicked(t, why) ==
  [by |-> t, op |-> "panic", req |-> [tx |-> NoTx], pre |-> db, outcome |-> "none",
   ret |-> Bail("panicked", why, <<>>), locked |-> FALSE]

\* self.inner.write().unwrap() on Err(PoisonError): the unwrap panics, the
\* operation returns nothing and the caller's thread unwinds
AcquirePoisoned(t) ==
  /\ pc[t] = "idle"
  /\ LockFree
  /\ ~WriteOk
  /\ cur' = Panicked(t, "PoisonError")
  /\ UNCHANGED <<db, guard, pc, touched, poisoned, lastget>>

\* a panic under the guard (an expect, an unwrap or the engine): unwinding drops
\* the guard, which poisons the lock; the store is as the operation found it
Panic(t) ==
  /\ pc[t] = "locked"
  /\ guard' = guard \ {t}
  /\ poisoned' = TRUE
  /\ pc' = [pc EXCEPT ![t] = "idle"]
  /\ cur' = Panicked(t, "panic under the guard")
  /\ UNCHANGED <<db, touched, lastget>>

\* the return bytes of a call or Contract::call that succeeded
ReturnBytes(op, ret) == IF op = "call" THEN ret.val.bits ELSE ret.val.v

IsGet(op, req) == op \in {"call", "Contract::call"} /\ req.tx.data = "sel_get"

IsInc(op, req) == op \in {"send", "Contract::send"} /\ req.tx.data = "sel_inc"

\* the word get() is expected to return after one more inc()
Incremented(bits) == <<bits[1] + 1>>

\* lastget after the operation op that returned and left r; a get() that returned
\* no word (the target has no code) is no observation of the counter
Observed(op, req, r) ==
  IF IsGet(op, req) /\ r.ret.ok /\ Len(ReturnBytes(op, r.ret)) = 1
    THEN Some([to |-> req.tx.transact_to, bits |-> ReturnBytes(op, r.ret)])
  ELSE IF IsInc(op, req) /\ r.ret.ok /\ IsSome(lastget)
          /\ Unwrap(lastget).to = req.tx.transact_to
    THEN Some([to |-> req.tx.transact_to, bits |-> Incremented(Unwrap(lastget).bits)])
  ELSE IF r.db # db \/ op = "create_account" THEN None
  ELSE lastget

\* the body of an operation under the guard: r is what it returns and leaves
Run(t, op, req, outcome, r) ==
  /\ db' = r.db
  /\ cur' = [by |-> t, op |-> op, req |-> req, pre |-> db, outcome |-> outcome,
             ret |-> r.ret, locked |-> TRUE]
  /\ pc' = [pc EXCEPT ![t] = "done"]
  /\ touched' = touched \cup {a \in Addr : r.db[a] # db[a]}
                         \cup (IF op = "create_account" THEN {req.user} ELSE {})
  /\ lastget' = Observed(op, req, r)
  /\ UNCHANGED <<guard, poisoned>>

Outcome(d, tx) == Transact(d, tx).tag

Deploy(t) ==
  /\ pc[t] = "locked"
  /\ \E tx \in TxEnvs :
       /\ TxWithinBounds(db, tx)
       /\ Run(t, "deploy", [tx |-> tx], Outcome(db, tx), deploy(db, tx))

Send(t) ==
  /\ pc[t] = "locked"
  /\ \E tx \in TxEnvs :
       /\ TxWithinBounds(db, tx)
       /\ Run(t, "send", [tx |-> tx], Outcome(db, tx), send(db, tx))

Call(t) ==
  /\ pc[t] = "locked"
  /\ \E tx \in TxEnvs :
       /\ ReadWithinBounds(db, tx)
       /\ Run(t, "call", [tx |-> tx], Outcome(db, tx), call(db, tx))

Transfer(t) ==
  /\ pc[t] = "locked"
  /\ \E from \in Callers, to \in Addr, value \in Values :
       /\ TxWithinBounds(db, TransferTx(from, to, value))
       /\ Run(t, "transfer",
              [tx |-> TransferTx(from, to, value), from |-> from, to |-> to,
               value |-> value],
              Outcome(db, TransferTx(from, to, value)), transfer(db, from, to, value))

BalanceOf(t) ==
  /\ pc[t] = "locked"
  /\ \E user \in Addr :
       Run(t, "balance_of", [tx |-> NoTx, user |-> user], "none", balance_of(db, user))

CreateAccount(t) ==
  /\ pc[t] = "locked"
  /\ \E user \in Addr, value \in {None} \cup {Some(v) : v \in Values} :
       Run(t, "create_account", [tx |-> NoTx, user |-> user, value |-> value], "none",
           add_account(db, user, value))

ViewAccount(t) ==
  /\ pc[t] = "locked"
  /\ \E user \in Addr :
       Run(t, "view_account", [tx |-> NoTx, user |-> user], "none", view_account(db, user))

ContractDeploy(t) ==
  /\ pc[t] = "locked"
  /\ \E deployer \in Callers, bincode \in InitCode :
       LET tx == [TxEnvDefault EXCEPT !.caller = deployer, !.transact_to = "Create",
                                      !.data = bincode]
       IN /\ TxWithinBounds(db, tx)
          /\ Run(t, "Contract::deploy", [tx |-> tx], Outcome(db, tx),
                 contract_deploy(db, deployer, bincode))

\* Contract::call / Contract::send returning before the provider is reached.  The
\* step reads and writes nothing shared, so it commutes with the steps of the other
\* threads: it is taken between operations, and it is the whole call.
ContractBail(t) ==
  /\ pc[t] = "idle"
  /\ guard = {}
  /\ cur.op = "none"
  /\ \E op \in {"Contract::call", "Contract::send"}, c \in Contracts, name \in Names,
        args \in Args, caller \in ContractCallers, value \in {None, Some(1)} :
       LET pre == ContractTx(c, name, args, caller, value) IN
       /\ op = "Contract::call" => value = None
       /\ ~pre.ok
       /\ cur' = [by |-> t, op |-> op,
                  req |-> [tx |-> NoTx, c |-> c, name |-> name, args |-> args],
                  pre |-> db, outcome |-> "none", ret |-> pre, locked |-> FALSE]
       /\ UNCHANGED <<db, guard, pc, touched, poisoned, lastget>>

\* Contract::at : a pure step on the caller's own binding, taken between operations
At(t) ==
  /\ pc[t] = "idle"
  /\ guard = {}
  /\ cur.op = "none"
  /\ \E c \in Contracts, address \in Addr :
       /\ cur' = [by |-> t, op |-> "Contract::at",
                  req |-> [tx |-> NoTx, c |-> c, address |-> address],
                  pre |-> db, outcome |-> "none", ret |-> at(c, address),
                  locked |-> FALSE]
       /\ UNCHANGED <<db, guard, pc, touched, poisoned, lastget>>

ContractCall(t) ==
  /\ pc[t] = "locked"
  /\ \E c \in Contracts, name \in Names, args \in Args, caller \in ContractCallers :
       LET pre == ContractTx(c, name, args, caller, None) IN
       /\ pre.ok
       /\ ReadWithinBounds(db, pre.val)
       /\ Run(t, "Contract::call", [tx |-> pre.val, c |-> c, name |-> name, args |-> args],
              Outcome(db, pre.val), contract_call(db, name, pre.val))

ContractSend(t) ==
  /\ pc[t] = "locked"
  /\ \E c \in Contracts, name \in Names, args \in Args, caller \in ContractCallers,
        value \in {None, Some(1)} :
       LET pre == ContractTx(c, name, args, caller, value) IN
       /\ pre.ok
       /\ TxWithinBounds(db, pre.val)
       /\ Run(t, "Contract::send", [tx |-> pre.val, c |-> c, name |-> name, args |-> args],
              Outcome(db, pre.val), contract_send(db, name, pre.val))

\* the operation returns to its caller; a guard it holds is dropped
Return(t) ==
  /\ pc[t] = "done"
  /\ pc' = [pc EXCEPT ![t] = "idle"]
  /\ guard' = guard \ {t}
  /\ cur' = NoOp
  /\ UNCHANGED <<db, touched, poisoned, lastget>>

Next ==
  \E t \in Threads :
    \/ Acquire(t)
    \/ AcquirePoisoned(t)
    \/ Panic(t)
    \/ At(t)
    \/ Deploy(t)
    \/ Send(t)
    \/ Call(t)
    \/ Transfer(t)
    \/ BalanceOf(t)
    \/ CreateAccount(t)
    \/ ViewAccount(t)
    \/ ContractDeploy(t)
    \/ ContractBail(t)
    \/ ContractCall(t)
    \/ ContractSend(t)
    \/ Return(t)

Spec == Init /\ [][Next]_vars

(***************************************************************************)
(* Properties.  cur is the operation that has run and not yet returned, or *)
(* the Contract call that has just bailed out.                             *)
(***************************************************************************)
TxOps ==
  {"deploy", "send", "call", "transfer", "Contract::deploy", "Contract::call",
   "Contract::send"}

CommitOps == {"deploy", "send", "transfer", "Contract::deploy", "Contract::send"}

ReadOps == {"call", "Contract::call"}

ContractOps == {"Contract::call", "Contract::send"}

Failed == cur.outcome \in {"Revert", "Halt"}

BalancesKept == \A a \in Addr : balance_of(db, a).ret = balance_of(cur.pre, a).ret

StorageKept == \A a \in Addr : db[a].storage = cur.pre[a].storage

C3_CallLeavesStore == cur.op \in ReadOps => db = cur.pre /\ BalancesKept

\* a successful call of a transaction that changes balances and storage when sent
C3_Reached ==
  /\ cur.op = "call"
  /\ cur.outcome = "Success"
  /\ cur.ret.ok
  /\ send(cur.pre, cur.req.tx).db["bob"].balance # cur.pre["bob"].balance
  /\ send(cur.pre, cur.req.tx).db["bob"].storage # cur.pre["bob"].storage

\* C4 (as amended): a transfer of v from A to another address B that succeeds takes
\* exactly v from the balance of A and adds exactly v to the balance of B; a
\* successful transfer from A to A leaves its balance; no other balance changes.
C4_TransferMovesValue ==
  cur.op = "transfer" /\ cur.ret.ok =>
    \A a \in Addr :
      db[a].balance = cur.pre[a].balance
                        - (IF a = cur.req.from THEN cur.req.value ELSE 0)
                        + (IF a = cur.req.to THEN cur.req.value ELSE 0)

\* C4 as stated, for any A and B
C4_AnyAddresses ==
  cur.op = "transfer" /\ cur.ret.ok =>
    /\ db[cur.req.from].balance = cur.pre[cur.req.from].balance - cur.req.value
    /\ db[cur.req.to].balance = cur.pre[cur.req.to].balance + cur.req.value

\* alice 1, bob 1, transfer 1: alice 0, bob 2
C4_Reached ==
  /\ cur.op = "transfer"
  /\ cur.ret.ok
  /\ cur.req.from = "alice" /\ cur.req.to = "bob" /\ cur.req.value = 1
  /\ cur.pre["alice"].balance = 1 /\ cur.pre["bob"].balance = 1
  /\ db["alice"].balance = 0 /\ db["bob"].balance = 2

ValueOr0(value) == IF IsSome(value) THEN Unwrap(value) ELSE 0

C7_UnboundRejected ==
  cur.op \in ContractOps /\ ~IsSome(cur.req.c.address) =>
    /\ ~cur.ret.ok
    /\ cur.ret.err = "missing contract address"
    /\ ~cur.locked
    /\ guard = {}
    /\ db = cur.pre

\* an unbound binding asked for a function that the schema does not have
C7_Reached ==
  /\ cur.op = "Contract::send"
  /\ cur.req.c = ContractFrom
  /\ cur.req.name = "nope"
  /\ cur.ret.err = "missing contract address"
  /\ touched # {}

\* the call does not fit the schema: unknown name, or the wrong number of arguments
Misfit(name, args) == name \notin DOMAIN Abi \/ Len(args) # Abi[name].inputs

\* C8: Contract::call and Contract::send on a bound contract with a function name
\* that is not in the schema, or with arguments that do not fit the signature, fail
\* with an encoding error without taking the lock and without changing the store.
C8_EncodingRejected ==
  cur.op \in ContractOps /\ IsSome(cur.req.c.address)
    /\ Misfit(cur.req.name, cur.req.args) =>
      /\ ~cur.ret.ok
      /\ cur.ret.err \in {"encode: unknown function", "encode: invalid data"}
      /\ ~cur.locked
      /\ guard = {}
      /\ db = cur.pre

\* a deployed contract is asked for a function that its schema does not have
C8_Reached ==
  /\ cur.op = "Contract::call"
  /\ cur.req.c.address = Some("bob")
  /\ cur.req.name = "nope"
  /\ cur.ret.err = "encode: unknown function"
  /\ db["bob"].code = "counter"

\* C9: at most one thread holds the write guard; a thread is between taking the
\* lock and returning exactly when it holds the guard; the operation that ran is the
\* guard holder's, and the store is as that operation left it, reads included.
C9_OneAtATime ==
  /\ Cardinality(guard) <= 1
  /\ \A t \in Threads : pc[t] \in {"locked", "done"} <=> t \in guard
  /\ cur.locked => guard = {cur.by} /\ pc[cur.by] = "done"
  /\ cur.locked /\ cur.op \in {"balance_of", "view_account", "call", "Contract::call"}
       => db = cur.pre

\* a balance_of holds the guard while the other thread is outside
C9_Reached ==
  /\ cur.op = "balance_of"
  /\ guard = {"t2"}
  /\ pc["t2"] = "done"
  /\ pc["t1"] = "idle"
  /\ ~ENABLED Acquire("t1")

\* the output has the shape the operation expects
ShapeFits(op, output) ==
  IF op = "deploy" THEN output.kind = "Create" /\ IsSome(output.address)
  ELSE output.kind = "Call"

\* C10: deploy, send and call return the engine's error as a failure; else a Halt as
\* a failure with the halt reason, a Revert as a failure with the revert payload;
\* else a Success whose output has not the shape of the operation as a failure of
\* its own; they return a value exactly for a Success of the right shape.
C10_Classification ==
  cur.op \in {"deploy", "send", "call"} =>
    /\ cur.outcome = "Err" =>
         /\ ~cur.ret.ok
         /\ cur.ret.err = IF cur.op = "call" THEN "error with simulate write..."
                          ELSE "error with write"
    /\ cur.outcome = "Halt" =>
         /\ ~cur.ret.ok
         /\ cur.ret.err = "Failed due to halt"
         /\ cur.ret.reason = Transact(cur.pre, cur.req.tx).reason
    /\ cur.outcome = "Revert" =>
         /\ ~cur.ret.ok
         /\ cur.ret.err = "Failed due to revert"
         /\ cur.ret.bytes = Transact(cur.pre, cur.req.tx).output.bytes
    /\ cur.outcome = "Success"
         /\ ~ShapeFits(cur.op, Transact(cur.pre, cur.req.tx).output) =>
           /\ ~cur.ret.ok
           /\ cur.ret.err = IF cur.op = "deploy" THEN "expected a create call"
                            ELSE "expected call output"
    /\ cur.ret.ok <=>
         /\ cur.outcome = "Success"
         /\ ShapeFits(cur.op, Transact(cur.pre, cur.req.tx).output)

\* a transaction in call mode handed to deploy succeeds in the engine
C10_Reached ==
  /\ cur.op = "deploy"
  /\ cur.outcome = "Success"
  /\ ~IsCreate(cur.req.tx)
  /\ cur.ret.err = "expected a create call"

\* C11: at(address) returns a binding with the schema of the one it was called on
\* and the given address, and leaves the binding it was called on as it was: an
\* unbound one stays unbound, so that its call and send fail with "missing contract
\* address", a bound one keeps its address; the store is not touched.
C11_AtLeavesOriginal ==
  cur.op = "Contract::at" =>
    /\ cur.ret.this.address = Some(cur.req.address)
    /\ cur.ret.this.contract = cur.req.c.contract
    /\ cur.ret.self = cur.req.c
    /\ ~IsSome(cur.req.c.address) =>
         \A name \in Names, args \in Args, value \in {None, Some(1)} :
           ContractTx(cur.ret.self, name, args, "alice", value).err
             = "missing contract address"
    /\ db = cur.pre

\* an unbound binding is bound to the address of the deployed contract
C11_Reached ==
  /\ cur.op = "Contract::at"
  /\ cur.req.c = ContractFrom
  /\ cur.req.address = "bob"
  /\ db["bob"].code = "counter"
  /\ ContractTx(cur.ret.this, "get", <<>>, "alice", None).ok

\* C12: once a panic under the guard has poisoned the lock, the lock stays
\* poisoned, no thread gets the guard, every operation panics instead of returning
\* a result, and the store does not change.
C12_PoisonedForGood ==
  [][poisoned =>
       /\ poisoned'
       /\ guard' = {}
       /\ \A t \in Threads : pc'[t] = "idle"
       /\ cur'.op = "panic"
       /\ db' = db]_vars

\* after a panic of one thread, an operation of the other thread has panicked on
\* the poisoned lock, in a store that holds a contract
C12_Reached ==
  /\ poisoned
  /\ cur.op = "panic"
  /\ cur.ret.reason = "PoisonError"
  /\ db["bob"].code = "counter"

\* what a transaction that ended in Revert or Halt leaves: code and storage as they
\* were, the nonce of the caller raised, the gas fee paid
RevertHaltCommitted ==
  \A a \in Addr :
    /\ db[a].code = cur.pre[a].code
    /\ db[a].storage = cur.pre[a].storage
    /\ db[a].nonce = cur.pre[a].nonce + (IF a = cur.req.tx.caller THEN 1 ELSE 0)
    /\ a \notin {cur.req.tx.caller, ZeroAddr} => db[a].balance = cur.pre[a].balance

C14_CallSeesCommitted ==
  [][IsGet(cur'.op, cur'.req) /\ cur'.ret.ok /\ IsSome(lastget)
       /\ Unwrap(lastget).to = cur'.req.tx.transact_to
     => ReturnBytes(cur'.op, cur'.ret) = Unwrap(lastget).bits]_vars

\* get() was called, inc() was sent, and get() is called again and returns 1
C14_Reached ==
  /\ cur.op = "Contract::call"
  /\ cur.req.name = "get"
  /\ cur.ret.ok
  /\ cur.ret.val.v = <<1>>
  /\ lastget = Some([to |-> "bob", bits |-> <<1>>])
  /\ db["alice"].nonce = 1

\* C15: a transfer of more than the sender has fails and leaves every balance; the
\* balance of every account is at every time a number from 0 to U256::MAX.
C15_NoOverdraft ==
  /\ \A a \in Addr : db[a].balance \in 0..U256Max
  /\ cur.op = "transfer" /\ cur.req.value > cur.pre[cur.req.from].balance =>
       /\ ~cur.ret.ok
       /\ BalancesKept

\* alice has 1 and transfers 2 to bob, who has 1
C15_Reached ==
  /\ cur.op = "transfer"
  /\ cur.req.from = "alice" /\ cur.req.to = "bob" /\ cur.req.value = 2
  /\ cur.pre["alice"].balance = 1 /\ cur.pre["bob"].balance = 1
  /\ ~cur.ret.ok

\* C16 as stated: create_account on an address overwrites only the balance of that
\* account: its nonce, code and storage are as before, and so is every other account.
C16_OnlyBalanceOverwritten ==
  cur.op = "create_account" =>
    /\ db[cur.req.user].nonce = cur.pre[cur.req.user].nonce
    /\ db[cur.req.user].code = cur.pre[cur.req.user].code
    /\ db[cur.req.user].storage = cur.pre[cur.req.user].storage
    /\ \A b \in Addr \ {cur.req.user} : db[b] = cur.pre[b]

\* the call-mode transaction with caller from, target to, no input data and the
\* value, everything else as TxEnv::default() has it
PlainValueTx(from, to, value) ==
  [caller |-> from, transact_to |-> to, data |-> "", value |-> value,
   gas_limit |-> GasLimitMax, gas_price |-> 0]

\* C17: transfer(from, to, value) returns what send of the call-mode transaction
\* with caller from, target to, empty input data and the value returns in the same
\* store, and leaves the store that send leaves.
C17_TransferIsSend ==
  cur.op = "transfer" =>
    /\ cur.ret = send(cur.pre, PlainValueTx(cur.req.from, cur.req.to, cur.req.value)).ret
    /\ db = send(cur.pre, PlainValueTx(cur.req.from, cur.req.to, cur.req.value)).db

\* a transfer of 1 to the contract, which takes no plain value, is reverted
C17_Reached ==
  /\ cur.op = "transfer"
  /\ cur.req.from = "alice" /\ cur.req.to = "bob" /\ cur.req.value = 1
  /\ cur.pre["bob"].code = "counter"
  /\ cur.outcome = "Revert"
  /\ db["alice"].nonce = cur.pre["alice"].nonce + 1

FeePaid == Transact(cur.pre, cur.req.tx).gas_used * cur.req.tx.gas_price

\* C19 (as amended): no operation other than create_account raises the sum of the
\* balances, and none lowers it except a committed transaction whose gas fee the
\* coinbase cannot hold: its balance stays at U256::MAX and the rest of the fee is
\* gone.
C19_TotalKept ==
  cur.op \notin {"none", "create_account"} =>
    \/ SumBalances(db) = SumBalances(cur.pre)
    \/ /\ cur.op \in CommitOps
       /\ cur.outcome # "Err"
       /\ cur.pre[ZeroAddr].balance + FeePaid > U256Max
       /\ db[ZeroAddr].balance = U256Max
       /\ SumBalances(db) < SumBalances(cur.pre)

\* C19 as stated: the sum of the balances changes in create_account only
C19_TotalOnlyByCreate ==
  cur.op \notin {"none", "create_account"} =>
    SumBalances(db) = SumBalances(cur.pre)

\* a transaction that paid a fee and moved a value has left the sum as it was
C19_Reached ==
  /\ cur.op = "send"
  /\ cur.outcome = "Success"
  /\ cur.req.tx.gas_price = 1
  /\ cur.req.tx.value = 1
  /\ db[ZeroAddr].balance = cur.pre[ZeroAddr].balance + 1
  /\ db["bob"].balance = cur.pre["bob"].balance + 1
  /\ SumBalances(db) = SumBalances(cur.pre)

====
